---- MODULE Spec2Model ----
(***************************************************************************)
(* Model of the dual-backend HTTP client layer (utils/axios.ts), the        *)
(* NextAuth callback wiring (utils/authOptions.ts) and the route guards    *)
(* (utils/route-guard) of the frontend template, as documented with their  *)
(* code in src/edu/authentication-explained.md and src/README.md.          *)
(*                                                                         *)
(* JavaScript values are represented as follows.  An object is a function  *)
(* from its property names to values; a property that is undefined is left *)
(* out of the domain.  A string property is a TLA+ string; Undefined is    *)
(* the value a read of a missing property yields.  A string primitive that *)
(* stands where an object could stand is wrapped by StringValue.           *)
(***************************************************************************)
EXTENDS Integers, Sequences, FiniteSets, Bags, TLC

VARIABLES
    env,        \* process.env: a function from the variables that are set to their values
    loaded,     \* evaluation of utils/axios.ts: "init", "ready" or "failed"
    thrown,     \* the Error thrown by the module evaluation, if any
    clients,    \* the axios instances created so far, by name
    authOptions,\* the NextAuth options object, once utils/authOptions.ts is evaluated
    cookie,     \* the signed session token (JWT) held by the browser
    calls,      \* the calls application code has made through the two clients
    auth,       \* the authorize() invocation running on the server, if any
    pathname,   \* window.location.pathname
    useSession, \* what useSession() returns in the browser: status and data
    guard,      \* the route guard mounted on the current page and what it renders
    checks,     \* the guards' requests to /api/auth/protected still under way
    signout,    \* the request of signOut() to /api/auth/signout: "none" or "sent"
    form        \* the Formik state of the login or registration form

vars == <<env, loaded, thrown, clients, authOptions, cookie, calls, auth, pathname,
          useSession, guard, checks, signout, form>>

\* the state of the pages: left alone by the client layer
pageVars == <<useSession, guard, checks, signout, form>>

----------------------------------------------------------------------------
(* JavaScript helpers *)

Undefined == "<undefined>"

\* obj.key (obj?.key when obj is an object)
Get(obj, key) == IF key \in DOMAIN obj THEN obj[key] ELSE Undefined

\* obj[key] = value; a property set to undefined does not survive serialisation
Set(obj, key, value) ==
    IF value = Undefined
    THEN [k \in (DOMAIN obj) \ {key} |-> obj[k]]
    ELSE (key :> value) @@ obj

\* truthiness of a string-valued expression: undefined and '' are falsy
Truthy(s) == s # Undefined /\ s # ""

EmptyObject == [k \in {} |-> ""]

\* null or undefined in a position where an object is expected
NoObject == [undefined |-> TRUE]

\* obj[key] = value for an object-valued property
SetObject(obj, key, value) == (key :> value) @@ obj

\* a string primitive in a position where an object may also occur
StringValue(s) == [primitive |-> s]

----------------------------------------------------------------------------
(* Environment configuration *)

RequiredEnvKeys ==
    {"CREDENTIALS_API_URL", "MESSAGES_WEB_API_URL", "MESSAGES_WEB_API_KEY",
     "NEXT_APP_JWT_TIMEOUT", "NEXT_APP_JWT_SECRET", "NEXTAUTH_URL", "NEXTAUTH_SECRET"}

\* the values of the documented .env file
ExampleEnv ==
    [CREDENTIALS_API_URL  |-> "http://localhost:8008",
     MESSAGES_WEB_API_URL |-> "http://localhost:8000",
     MESSAGES_WEB_API_KEY |-> "your-api-key-here",
     NEXT_APP_JWT_TIMEOUT |-> "86400",
     NEXT_APP_JWT_SECRET  |-> "your-secret",
     NEXTAUTH_URL         |-> "http://localhost:3000",
     NEXTAUTH_SECRET      |-> "your-nextauth-secret"]

\* the keys utils/axios.ts tests; a key set to '' fails `!process.env.KEY` like a missing one
ValidatedEnvKeys == {"CREDENTIALS_API_URL", "MESSAGES_WEB_API_URL", "MESSAGES_WEB_API_KEY"}

\* every environment the process can be started in: each variable unset or set
\* to its documented value, the tested ones possibly set to the empty string
Environments ==
    { [k \in RequiredEnvKeys \ unset |-> IF k \in empty THEN "" ELSE ExampleEnv[k]] :
        unset \in SUBSET RequiredEnvKeys, empty \in SUBSET ValidatedEnvKeys }

NoError == [thrown |-> FALSE]

Error(message) == [thrown |-> TRUE, message |-> message]

\* the message of one `throw new Error(...)` of the validation block, as the code
\* concatenates it: `named` is the variable name written in the string literals
NotSetMessage(named, example) ==
    named \o " environment variable is not set. " \o
    "Please add " \o named \o " to your .env and/or next.config.js file(s). " \o
    "Example: " \o named \o "=" \o example

\* EnvironmentValidation without the test of the API key
EnvironmentValidation_SkipsKey(e) ==
    IF ~Truthy(Get(e, "CREDENTIALS_API_URL"))
    THEN Error(NotSetMessage("CREDENTIALS_API_URL", "http://localhost:8008"))
    ELSE IF ~Truthy(Get(e, "MESSAGES_WEB_API_URL"))
    THEN Error(NotSetMessage("MESSAGES_WEB_API_URL", "http://localhost:8000"))
    ELSE NoError

\* the three `if (!process.env.X) throw new Error(...)` statements, in order
EnvironmentValidation(e) ==
    IF ~Truthy(Get(e, "CREDENTIALS_API_URL"))
    THEN Error(NotSetMessage("CREDENTIALS_API_URL", "http://localhost:8008"))
    ELSE IF ~Truthy(Get(e, "MESSAGES_WEB_API_URL"))
    THEN Error(NotSetMessage("MESSAGES_WEB_API_URL", "http://localhost:8000"))
    ELSE IF ~Truthy(Get(e, "MESSAGES_WEB_API_KEY"))
    THEN Error(NotSetMessage("MESSAGE_WEB_API_KEY", "your-api-key-here"))
    ELSE NoError

\* axios.create({ baseURL: process.env.CREDENTIALS_API_URL })
CreateCredentialsService(e) == [baseURL |-> Get(e, "CREDENTIALS_API_URL")]

\* axios.create({ baseURL: process.env.MESSAGES_WEB_API_URL })
CreateMessagesService(e) == [baseURL |-> Get(e, "MESSAGES_WEB_API_URL")]

NoClients == [n \in {} |-> EmptyObject]

\* Evaluation of utils/axios.ts: the validation block, then the two axios.create calls.
LoadAxiosModule ==
    /\ loaded = "init"
    /\ LET err == EnvironmentValidation(env) IN
         IF err.thrown
         THEN /\ loaded' = "failed"
              /\ thrown' = err
              /\ clients' = clients
         ELSE /\ loaded' = "ready"
              /\ thrown' = thrown
              /\ clients' = [credentialsService |-> CreateCredentialsService(env),
                             messagesService |-> CreateMessagesService(env)]
    /\ UNCHANGED <<env, authOptions, cookie, calls, auth, pathname, pageVars>>

NotBuilt == [built |-> FALSE]

\* Evaluation of utils/authOptions.ts (it imports utils/axios through authApi):
\* the jwt options read their variable without testing it.
LoadAuthOptions ==
    /\ loaded = "ready"
    /\ authOptions = NotBuilt
    /\ authOptions' = [built |-> TRUE,
                       session |-> [strategy |-> "jwt"],
                       jwt |-> [secret |-> Get(env, "NEXT_APP_JWT_SECRET")]]
    /\ UNCHANGED <<env, loaded, thrown, clients, cookie, calls, auth, pathname, pageVars>>

----------------------------------------------------------------------------
(* The backends' answers *)

\* bodies of the form { data: { user, accessToken } } the credentials backend
\* returns; the second user carries further properties, among them an
\* accessToken property of its own
EnvelopeBodies ==
    { [data |-> [user |-> [id |-> "42"], accessToken |-> "tok-abc"]],
      [data |-> [user |-> [id |-> "7", name |-> "Ann", accessToken |-> "stale"],
                 accessToken |-> "tok-xyz"]] }

\* a body whose payload carries no accessToken, and a body with no payload at all
TokenlessBody == [data |-> [user |-> [id |-> "9"]]]
BareBody == [status |-> "ok"]

\* payloads of an error response: a JSON body with a message, or nothing
ErrorPayloads == { [message |-> "Invalid credentials"], StringValue("") }

ErrorStatuses == {401, 404, 500}

\* what axios hands to the response interceptor: a response with a 2xx status,
\* an error carrying the response with its status, or an error without a response
SuccessOutcome(body) == [kind |-> "response", status |-> 200, data |-> body]

HttpErrorOutcome(status, payload) ==
    [kind |-> "error", code |-> "ERR_BAD_RESPONSE",
     response |-> [status |-> status, data |-> payload]]

NetworkErrorOutcome(code) == [kind |-> "error", code |-> code]

ErrorOutcomes ==
    { HttpErrorOutcome(st, p) : st \in ErrorStatuses, p \in ErrorPayloads }
    \cup { NetworkErrorOutcome(c) : c \in {"ECONNREFUSED", "ETIMEDOUT"} }

\* answers to POST /auth/login and POST /auth/register
AuthOutcomes ==
    { SuccessOutcome(b) : b \in EnvelopeBodies \cup {TokenlessBody, BareBody} }
    \cup ErrorOutcomes

\* answers to the other endpoints, a 503 of a gateway among them
DataOutcomes ==
    { SuccessOutcome(BareBody), HttpErrorOutcome(503, [message |-> "Service Unavailable"]) }
    \cup ErrorOutcomes

----------------------------------------------------------------------------
(* NextAuth callbacks and the session *)

\* JwtCallback dropping the access token when it is called without a user
JwtCallback_ForgetsToken(token, user, account) ==
    IF user # NoObject
    THEN Set(Set(Set(token, "accessToken", Get(user, "accessToken")),
                 "id", Get(user, "id")),
             "provider", Get(account, "provider"))
    ELSE Set(token, "accessToken", Undefined)

\* JwtCallback building a new token of the three properties only
JwtCallback_FreshToken(token, user, account) ==
    IF user # NoObject
    THEN Set(Set(Set(EmptyObject, "accessToken", Get(user, "accessToken")),
                 "id", Get(user, "id")),
             "provider", Get(account, "provider"))
    ELSE token

\* callbacks.jwt: with a user, stores accessToken, id and provider in the token
JwtCallback(token, user, account) ==
    IF user # NoObject
    THEN Set(Set(Set(token, "accessToken", Get(user, "accessToken")),
                 "id", Get(user, "id")),
             "provider", Get(account, "provider"))
    ELSE token

\* SessionCallback leaving the provider out of the session
SessionCallback_NoProvider(session, token) ==
    IF token # NoObject
    THEN SetObject(Set(session, "id", Get(token, "id")), "token", token)
    ELSE session

\* callbacks.session: copies id, provider and the whole token into the session
SessionCallback(session, token) ==
    IF token # NoObject
    THEN SetObject(Set(Set(session, "id", Get(token, "id")),
                       "provider", Get(token, "provider")),
                   "token", token)
    ELSE session

\* the token NextAuth hands to callbacks.jwt at sign-in, built from the user
DefaultToken(user) == Set(Set(EmptyObject, "name", Get(user, "name")), "sub", Get(user, "id"))

\* the session NextAuth hands to callbacks.session, built from the token
DefaultSession(token) == [user |-> Set(EmptyObject, "name", Get(token, "name"))]

\* getSession() / useSession() in the browser: null without a session cookie;
\* otherwise the stored token goes through callbacks.jwt (no user) and callbacks.session
BrowserSession(jwt) ==
    IF jwt = NoObject
    THEN NoObject
    ELSE LET token == JwtCallback(jwt, NoObject, NoObject)
         IN  SessionCallback(DefaultSession(token), token)

\* `await getSession()` in the request interceptor; on the server, where authorize()
\* runs, the call carries no cookie and yields null
GetSession(ctx, jwt) == IF ctx = "browser" THEN BrowserSession(jwt) ELSE NoObject

----------------------------------------------------------------------------
(* The two axios instances and their interceptors *)

\* session?.token.accessToken
SessionAccessToken(session) ==
    IF session = NoObject THEN Undefined ELSE Get(session.token, "accessToken")

\* CredentialsRequestInterceptor sending the token without the 'Bearer ' scheme
CredentialsRequestInterceptor_Raw(headers, session) ==
    IF Truthy(SessionAccessToken(session))
    THEN ("Authorization" :> SessionAccessToken(session)) @@ headers
    ELSE headers

\* credentialsService.interceptors.request: the headers of the outbound request
CredentialsRequestInterceptor(headers, session) ==
    IF Truthy(SessionAccessToken(session))
    THEN ("Authorization" :> ("Bearer " \o SessionAccessToken(session))) @@ headers
    ELSE headers

\* MessagesRequestInterceptor reading the variable under the misspelt name
MessagesRequestInterceptor_WrongKey(headers, e) ==
    Set(headers, "X-API-Key", Get(e, "MESSAGE_WEB_API_KEY"))

\* messagesService.interceptors.request: the headers of the outbound request
MessagesRequestInterceptor(headers, e) ==
    Set(headers, "X-API-Key", Get(e, "MESSAGES_WEB_API_KEY"))

\* truthiness of error.response.data: an object is truthy, '' is not
PayloadTruthy(payload) == payload # StringValue("")

\* error.response?.status, 0 standing for undefined (no comparison with it succeeds)
ResponseStatus(error) ==
    IF "response" \in DOMAIN error THEN error.response.status ELSE 0

\* RejectionPayload without the fallback string
RejectionPayload_NoFallback(error) ==
    IF "response" \in DOMAIN error
    THEN error.response.data
    ELSE StringValue("Server connection refused")

\* (error.response && error.response.data) || 'Server connection refused'
RejectionPayload(error) ==
    IF "response" \in DOMAIN error /\ PayloadTruthy(error.response.data)
    THEN error.response.data
    ELSE StringValue("Server connection refused")

Settled(state, value, navigations) ==
    [state |-> state, value |-> value, navigations |-> navigations]

\* CredentialsResponseInterceptor without the redirect on 401
CredentialsResponseInterceptor_NoRedirect(outcome, windowDefined) ==
    IF outcome.kind = "response"
    THEN Settled("resolved", [status |-> outcome.status, data |-> outcome.data], <<>>)
    ELSE IF Get(outcome, "code") = "ECONNREFUSED"
    THEN Settled("rejected", [message |-> "Connection refused."], <<>>)
    ELSE IF ResponseStatus(outcome) >= 500
    THEN Settled("rejected", [message |-> "Server Error. Contact support"], <<>>)
    ELSE Settled("rejected", RejectionPayload(outcome), <<>>)

\* CredentialsResponseInterceptor without the ECONNREFUSED branch
CredentialsResponseInterceptor_NoConnectionBranch(outcome, windowDefined) ==
    IF outcome.kind = "response"
    THEN Settled("resolved", [status |-> outcome.status, data |-> outcome.data], <<>>)
    ELSE IF ResponseStatus(outcome) >= 500
    THEN Settled("rejected", [message |-> "Server Error. Contact support"], <<>>)
    ELSE IF ResponseStatus(outcome) = 401 /\ windowDefined
    THEN Settled("rejected", RejectionPayload(outcome), <<"/login">>)
    ELSE Settled("rejected", RejectionPayload(outcome), <<>>)

\* CredentialsResponseInterceptor without the branch for a status of 500 or more
CredentialsResponseInterceptor_NoServerBranch(outcome, windowDefined) ==
    IF outcome.kind = "response"
    THEN Settled("resolved", [status |-> outcome.status, data |-> outcome.data], <<>>)
    ELSE IF Get(outcome, "code") = "ECONNREFUSED"
    THEN Settled("rejected", [message |-> "Connection refused."], <<>>)
    ELSE IF ResponseStatus(outcome) = 401 /\ windowDefined
    THEN Settled("rejected", RejectionPayload(outcome), <<"/login">>)
    ELSE Settled("rejected", RejectionPayload(outcome), <<>>)

\* CredentialsResponseInterceptor reporting every failure without a response as a
\* refused connection
CredentialsResponseInterceptor_AnyConnectionFailure(outcome, windowDefined) ==
    IF outcome.kind = "response"
    THEN Settled("resolved", [status |-> outcome.status, data |-> outcome.data], <<>>)
    ELSE IF "response" \notin DOMAIN outcome
    THEN Settled("rejected", [message |-> "Connection refused."], <<>>)
    ELSE IF ResponseStatus(outcome) >= 500
    THEN Settled("rejected", [message |-> "Server Error. Contact support"], <<>>)
    ELSE IF ResponseStatus(outcome) = 401 /\ windowDefined
    THEN Settled("rejected", RejectionPayload(outcome), <<"/login">>)
    ELSE Settled("rejected", RejectionPayload(outcome), <<>>)

\* CredentialsResponseInterceptor handing the caller the body instead of the response
CredentialsResponseInterceptor_Unwraps(outcome, windowDefined) ==
    IF outcome.kind = "response"
    THEN Settled("resolved", outcome.data, <<>>)
    ELSE IF Get(outcome, "code") = "ECONNREFUSED"
    THEN Settled("rejected", [message |-> "Connection refused."], <<>>)
    ELSE IF ResponseStatus(outcome) >= 500
    THEN Settled("rejected", [message |-> "Server Error. Contact support"], <<>>)
    ELSE IF ResponseStatus(outcome) = 401 /\ windowDefined
    THEN Settled("rejected", RejectionPayload(outcome), <<"/login">>)
    ELSE Settled("rejected", RejectionPayload(outcome), <<>>)

\* CredentialsResponseInterceptor redirecting on every status below 500
CredentialsResponseInterceptor_RedirectsClientErrors(outcome, windowDefined) ==
    IF outcome.kind = "response"
    THEN Settled("resolved", [status |-> outcome.status, data |-> outcome.data], <<>>)
    ELSE IF Get(outcome, "code") = "ECONNREFUSED"
    THEN Settled("rejected", [message |-> "Connection refused."], <<>>)
    ELSE IF ResponseStatus(outcome) >= 500
    THEN Settled("rejected", [message |-> "Server Error. Contact support"], <<>>)
    ELSE IF "response" \in DOMAIN outcome /\ windowDefined
    THEN Settled("rejected", RejectionPayload(outcome), <<"/login">>)
    ELSE Settled("rejected", RejectionPayload(outcome), <<>>)

\* credentialsService.interceptors.response: `windowDefined` is typeof window !== 'undefined'
CredentialsResponseInterceptor(outcome, windowDefined) ==
    IF outcome.kind = "response"
    THEN Settled("resolved", [status |-> outcome.status, data |-> outcome.data], <<>>)
    ELSE IF Get(outcome, "code") = "ECONNREFUSED"
    THEN Settled("rejected", [message |-> "Connection refused."], <<>>)
    ELSE IF ResponseStatus(outcome) >= 500
    THEN Settled("rejected", [message |-> "Server Error. Contact support"], <<>>)
    ELSE IF ResponseStatus(outcome) = 401 /\ windowDefined
    THEN Settled("rejected", RejectionPayload(outcome), <<"/login">>)
    ELSE Settled("rejected", RejectionPayload(outcome), <<>>)

\* messagesService.interceptors.response: as the credentials one, without the
\* redirect on 401
MessagesResponseInterceptor(outcome, windowDefined) ==
    IF outcome.kind = "response"
    THEN Settled("resolved", [status |-> outcome.status, data |-> outcome.data], <<>>)
    ELSE IF Get(outcome, "code") = "ECONNREFUSED"
    THEN Settled("rejected", [message |-> "Connection refused."], <<>>)
    ELSE IF ResponseStatus(outcome) >= 500
    THEN Settled("rejected", [message |-> "Server Error. Contact support"], <<>>)
    ELSE Settled("rejected", RejectionPayload(outcome), <<>>)

\* ResponseInterceptor with the credentials handler registered on both instances
ResponseInterceptor_Shared(service, outcome, windowDefined) ==
    CredentialsResponseInterceptor(outcome, windowDefined)

\* ResponseInterceptor with each handler registered on the other instance
ResponseInterceptor_Swapped(service, outcome, windowDefined) ==
    IF service = "credentialsService"
    THEN MessagesResponseInterceptor(outcome, windowDefined)
    ELSE CredentialsResponseInterceptor(outcome, windowDefined)

\* the response interceptor registered on each instance
ResponseInterceptor(service, outcome, windowDefined) ==
    IF service = "credentialsService"
    THEN CredentialsResponseInterceptor(outcome, windowDefined)
    ELSE MessagesResponseInterceptor(outcome, windowDefined)

----------------------------------------------------------------------------
(* Calls through the clients *)

MaxCalls == 1

\* a request handed to the network.  `session` is what getSession() returned to the
\* request interceptor (messagesService's interceptor reads no session); `signedIn`
\* tells whether the caller held a session cookie at that moment
PendingCall(service, ctx, url, session, signedIn, headers) ==
    [state |-> "pending", service |-> service, ctx |-> ctx, url |-> url,
     session |-> session, signedIn |-> signedIn, headers |-> headers]

NotRead == [read |-> FALSE]

\* instance.get(url) / instance.post(url): the request interceptor runs, then the
\* request is dispatched to baseURL + url
Request(service, ctx, url, jwt) ==
    IF service = "credentialsService"
    THEN PendingCall(service, ctx, clients[service].baseURL \o url, GetSession(ctx, jwt),
                     jwt # NoObject,
                     CredentialsRequestInterceptor(EmptyObject, GetSession(ctx, jwt)))
    ELSE PendingCall(service, ctx, clients[service].baseURL \o url, NotRead,
                     jwt # NoObject,
                     MessagesRequestInterceptor(EmptyObject, env))

\* Settle dispatching the request of a failed call again instead of settling it
Settle_Redispatches(call, outcome) ==
    LET result == ResponseInterceptor(call.service, outcome, call.ctx = "browser")
    IN  [state |-> IF outcome.kind = "error" THEN "pending" ELSE result.state,
         service |-> call.service, ctx |-> call.ctx,
         url |-> call.url, session |-> call.session, signedIn |-> call.signedIn,
         headers |-> call.headers, outcome |-> outcome, value |-> result.value,
         navigations |-> result.navigations]

\* the response interceptor of the call's client runs on the outcome and settles the call
Settle(call, outcome) ==
    LET result == ResponseInterceptor(call.service, outcome, call.ctx = "browser")
    IN  [state |-> result.state, service |-> call.service, ctx |-> call.ctx,
         url |-> call.url, session |-> call.session, signedIn |-> call.signedIn,
         headers |-> call.headers, outcome |-> outcome, value |-> result.value,
         navigations |-> result.navigations]

\* window.location.pathname after the navigations of a settled call
Navigate(path, navigations) ==
    IF navigations = <<>> THEN path ELSE navigations[Len(navigations)]

\* the calls of `calls` (a bag: two calls may be alike)
Calls == BagToSet(calls)

Add(call) == calls (+) SetToBag({call})

Replace(call, by) == (calls (-) SetToBag({call})) (+) SetToBag({by})

Remove(call) == calls (-) SetToBag({call})

\* fetcher(url): browser code calls credentialsService.get
CredentialsGet ==
    /\ "credentialsService" \in DOMAIN clients
    /\ BagCardinality(calls) < MaxCalls
    /\ calls' = Add(Request("credentialsService", "browser", "/api/user/profile", cookie))
    /\ UNCHANGED <<env, loaded, thrown, clients, authOptions, cookie, auth, pathname, pageVars>>

\* messagesApi.create(data): browser code calls messagesService.post
MessagesPost ==
    /\ "messagesService" \in DOMAIN clients
    /\ BagCardinality(calls) < MaxCalls
    /\ calls' = Add(Request("messagesService", "browser", "/protected/message", cookie))
    /\ UNCHANGED <<env, loaded, thrown, clients, authOptions, cookie, auth, pathname, pageVars>>

\* the backend answers (or the connection fails) and the response interceptor runs
Respond ==
    /\ \E call \in Calls, outcome \in DataOutcomes :
         /\ call.state = "pending"
         /\ calls' = Replace(call, Settle(call, outcome))
         /\ pathname' = Navigate(pathname, Settle(call, outcome).navigations)
    /\ UNCHANGED <<env, loaded, thrown, clients, authOptions, cookie, auth, pageVars>>

\* the awaiting caller receives the resolved or rejected value
Observe ==
    /\ \E call \in Calls :
         /\ call.state \in {"resolved", "rejected"}
         /\ calls' = Remove(call)
    /\ UNCHANGED <<env, loaded, thrown, clients, authOptions, cookie, auth, pathname, pageVars>>

----------------------------------------------------------------------------
(* The authorize callbacks of the two CredentialsProviders *)

Idle == [state |-> "idle"]

Providers == {"login", "register"}

\* authApi.login posts to /auth/login, authApi.register to /auth/register
AuthApiUrl(provider) == IF provider = "login" THEN "/auth/login" ELSE "/auth/register"

\* the message of the TypeError `response.data.data.user` raises when the body has no data
TypeErrorMessage == "Cannot read properties of undefined (reading 'user')"

\* AuthorizeErrorMessage that always reports the generic fallback
AuthorizeErrorMessage_Generic(e) == "Something went wrong!"

\* e?.message || e?.response?.data?.message || 'Something went wrong!'
AuthorizeErrorMessage(e) ==
    IF Truthy(Get(e, "message"))
    THEN Get(e, "message")
    ELSE IF "response" \in DOMAIN e /\ "data" \in DOMAIN e.response
            /\ Truthy(Get(e.response.data, "message"))
    THEN Get(e.response.data, "message")
    ELSE "Something went wrong!"

\* AuthorizeIdentity returning the user without attaching the access token
AuthorizeIdentity_NoToken(response) == response.data.data.user

\* const data = response.data.data; data.user['accessToken'] = data.accessToken; return data.user
AuthorizeIdentity(response) ==
    Set(response.data.data.user, "accessToken", Get(response.data.data, "accessToken"))

\* the body of authorize() after `await authApi.login(...)` settled: the try block's
\* unwrapping, or the catch block's `throw new Error(errorMessage)`
AuthorizeOutcome(call) ==
    IF call.state = "resolved"
    THEN IF "data" \in DOMAIN call.value.data
         THEN [state |-> "returned", identity |-> AuthorizeIdentity(call.value)]
         ELSE [state |-> "thrown",
               error |-> Error(AuthorizeErrorMessage([message |-> TypeErrorMessage]))]
    ELSE [state |-> "thrown", error |-> Error(AuthorizeErrorMessage(call.value))]

\* signIn(provider, ...) reaches the server: authorize() starts and awaits authApi
AuthorizeCall(provider) ==
    /\ authOptions # NotBuilt
    /\ auth = Idle
    /\ auth' = [state |-> "calling", provider |-> provider,
                call |-> Request("credentialsService", "server", AuthApiUrl(provider), cookie)]
    /\ UNCHANGED <<env, loaded, thrown, clients, authOptions, cookie, calls, pathname, pageVars>>

\* the credentials backend answers: the response interceptor settles the call and
\* authorize() runs to its return or throw
AuthorizeSettle ==
    /\ auth.state = "calling"
    /\ \E outcome \in AuthOutcomes :
         LET call == Settle(auth.call, outcome) IN
         /\ auth' = [provider |-> auth.provider, call |-> call] @@ AuthorizeOutcome(call)
         /\ pathname' = Navigate(pathname, call.navigations)
    /\ UNCHANGED <<env, loaded, thrown, clients, authOptions, cookie, calls, pageVars>>

\* NextAuth takes the identity: callbacks.jwt folds it into a new token, which
\* replaces the session cookie
SignInSucceeds ==
    /\ auth.state = "returned"
    /\ cookie' = JwtCallback(DefaultToken(auth.identity), auth.identity,
                             [provider |-> auth.provider])
    /\ auth' = Idle
    /\ UNCHANGED <<env, loaded, thrown, clients, authOptions, calls, pathname, pageVars>>

\* NextAuth reports the thrown error to signIn's caller; the cookie is left as it is
SignInFails ==
    /\ auth.state = "thrown"
    /\ auth' = Idle
    /\ UNCHANGED <<env, loaded, thrown, clients, authOptions, cookie, calls, pathname, pageVars>>

----------------------------------------------------------------------------
(* The session in the browser and the two route guards *)

MaxChecks == 2

\* GuestGuard's redirectPath; the default landing page is the dashboard
APP_DEFAULT_PATH == "/dashboard"

\* the pages of (auth)/ are wrapped in GuestGuard, those of (dashboard)/ in AuthGuard
PageGuard(path) == IF path = "/login" THEN "GuestGuard" ELSE "AuthGuard"

\* useSession() before the first answer of /api/auth/session.  `ref` stands for the
\* identity of the value in `data`: two values are the same reference exactly when
\* their `ref` is equal (an effect compares a value only with the one before it)
Loading == [status |-> "loading", data |-> NoObject, ref |-> 0]

\* useSession() once the session `read` was delivered after `before`: every
\* session object delivered is a new one, null stays the same null, and the
\* undefined of the loading state is not the null of a missing session
Delivered(before, read) ==
    [status |-> IF read = NoObject THEN "unauthenticated" ELSE "authenticated",
     data |-> read,
     ref |-> IF read = NoObject /\ before.status = "unauthenticated"
             THEN before.ref
             ELSE 1 - before.ref]

\* session?.user
HasUser(data) == data # NoObject /\ "user" \in DOMAIN data

\* AuthGuardView showing the children to a caller without a session user
AuthGuardView_Inverted(s) ==
    IF s.status = "loading" \/ HasUser(s.data) THEN "Loader" ELSE "children"

\* AuthGuard: if (status === 'loading' || !session?.user) return <Loader />; return children
AuthGuardView(s) ==
    IF s.status = "loading" \/ ~HasUser(s.data) THEN "Loader" ELSE "children"

\* GuestGuardView showing the children whenever the status has settled
GuestGuardView_IgnoresUser(s) ==
    IF s.status = "loading" THEN "Loader" ELSE "children"

\* GuestGuard: if (status === 'loading' || session?.user) return <Loader />; return children
GuestGuardView(s) ==
    IF s.status = "loading" \/ HasUser(s.data) THEN "Loader" ELSE "children"

NotMounted == [kind |-> "none"]

\* the guard `kind` rendered with what useSession() returns
Render(kind, s) ==
    [kind |-> kind,
     view |-> IF kind = "AuthGuard" THEN AuthGuardView(s) ELSE GuestGuardView(s)]

\* fetchData() of a guard's effect after `fetch('/api/auth/protected')` was sent
SentCheck(kind, ref) == [guard |-> kind, ref |-> ref, state |-> "sent"]

\* the same once the route handler answered with `json`
AnsweredCheck(kind, ref, json) ==
    [guard |-> kind, ref |-> ref, state |-> "answered", json |-> json]

\* GET /api/auth/protected: getServerSession(authOptions) finds a session exactly
\* when the request carries a session cookie
ProtectedRoute(jwt) ==
    IF BrowserSession(jwt) # NoObject THEN [protected |-> TRUE] ELSE [protected |-> FALSE]

\* GuardPush in which AuthGuard never pushes
GuardPush_AuthGuardStays(kind, json) ==
    IF kind = "AuthGuard"
    THEN <<>>
    ELSE IF json.protected THEN <<APP_DEFAULT_PATH>> ELSE <<>>

\* the rest of fetchData(): the router.push the guard makes on `json`, if any
GuardPush(kind, json) ==
    IF kind = "AuthGuard"
    THEN IF ~json.protected THEN <<"/login">> ELSE <<>>
    ELSE IF json.protected THEN <<APP_DEFAULT_PATH>> ELSE <<>>

\* EffectRuns comparing the sessions by what they contain
EffectRuns_ByContent(before, after) ==
    before.data # after.data \/ before.status # after.status

\* useEffect(..., [session]): the effect runs again when useSession() delivers
\* another reference than the one of the render before
EffectRuns(before, after) == after.ref # before.ref

\* the browser opens the page at `pathname`: its guard renders and its effect sends
\* the first request to /api/auth/protected
GuardMount ==
    /\ guard = NotMounted
    /\ BagCardinality(checks) < MaxChecks
    /\ guard' = Render(PageGuard(pathname), useSession)
    /\ checks' = checks (+) SetToBag({SentCheck(PageGuard(pathname), useSession.ref)})
    /\ UNCHANGED <<env, loaded, thrown, clients, authOptions, cookie, calls, auth,
                   pathname, useSession, signout, form>>

\* GET /api/auth/session answers the SessionProvider: callbacks.jwt runs without a
\* user and callbacks.session projects the token; the token goes back into the
\* cookie; useSession() delivers the session, a mounted guard renders again and,
\* the session value being another one, its effect sends a request
SessionRead ==
    /\ authOptions # NotBuilt
    /\ LET read == Delivered(useSession, BrowserSession(cookie)) IN
       /\ useSession' = read
       /\ cookie' = IF cookie = NoObject THEN NoObject
                    ELSE JwtCallback(cookie, NoObject, NoObject)
       /\ IF guard = NotMounted
          THEN UNCHANGED <<guard, checks>>
          ELSE /\ guard' = Render(guard.kind, read)
               /\ IF EffectRuns(useSession, read)
                  THEN /\ BagCardinality(checks) < MaxChecks
                       /\ checks' = checks (+) SetToBag({SentCheck(guard.kind, read.ref)})
                  ELSE UNCHANGED checks
    /\ UNCHANGED <<env, loaded, thrown, clients, authOptions, calls, auth, pathname,
                   signout, form>>

\* the route handler of /api/auth/protected answers one of the requests
ProtectedRespond ==
    /\ \E check \in BagToSet(checks) :
         /\ check.state = "sent"
         /\ checks' = (checks (-) SetToBag({check}))
                          (+) SetToBag({AnsweredCheck(check.guard, check.ref,
                                                       ProtectedRoute(cookie))})
    /\ UNCHANGED <<env, loaded, thrown, clients, authOptions, cookie, calls, auth,
                   pathname, useSession, guard, signout, form>>

\* fetchData() resumes with the answer `check`: the guard that sent the request
\* pushes a route or does nothing; a push to another page takes the guard of the
\* page left off the screen
GuardHandle(check) ==
    /\ check \in BagToSet(checks)
    /\ check.state = "answered"
    /\ checks' = checks (-) SetToBag({check})
    /\ pathname' = Navigate(pathname, GuardPush(check.guard, check.json))
    /\ guard' = IF pathname' = pathname THEN guard ELSE NotMounted
    /\ UNCHANGED <<env, loaded, thrown, clients, authOptions, cookie, calls, auth,
                   useSession, signout, form>>

\* the answers a request to /api/auth/protected can be resumed with
AnsweredChecks ==
    { AnsweredCheck(kind, ref, [protected |-> p]) :
          kind \in {"AuthGuard", "GuestGuard"}, ref \in {0, 1}, p \in BOOLEAN }

\* handleLogout, the button of the dashboard header: signOut({ redirect: false })
\* sends its request and is not awaited, router.push('/login') leaves the page
Logout ==
    /\ guard = [kind |-> "AuthGuard", view |-> "children"]
    /\ signout = "none"
    /\ signout' = "sent"
    /\ pathname' = "/login"
    /\ guard' = NotMounted
    /\ UNCHANGED <<env, loaded, thrown, clients, authOptions, cookie, calls, auth,
                   useSession, checks, form>>

\* SignOutRespond leaving the session cookie in place
SignOutRespond_KeepsCookie ==
    /\ signout = "sent"
    /\ signout' = "none"
    /\ UNCHANGED <<env, loaded, thrown, clients, authOptions, cookie, calls, auth,
                   pathname, useSession, guard, checks, form>>

\* POST /api/auth/signout is handled: NextAuth clears the session cookie
SignOutRespond ==
    /\ signout = "sent"
    /\ signout' = "none"
    /\ cookie' = NoObject
    /\ UNCHANGED <<env, loaded, thrown, clients, authOptions, calls, auth, pathname,
                   useSession, guard, checks, form>>

----------------------------------------------------------------------------
(* The login and registration forms *)

\* initialValues of the form: every field '', submit null
InitialValues(kind) ==
    IF kind = "login"
    THEN [email |-> <<>>, password |-> <<>>]
    ELSE [firstname |-> <<>>, lastname |-> <<>>, email |-> <<>>, password |-> <<>>]

\* the Formik state before anything is submitted
FormikInit(kind) ==
    [kind |-> kind, values |-> InitialValues(kind), errors |-> EmptyObject,
     isSubmitting |-> FALSE, signIn |-> "none", args |-> EmptyObject,
     preloaded |-> FALSE]

\* the longest password a user types here
MaxPasswordLen == 11

\* a string of n characters c
Repeat(c, n) == [i \in 1..n |-> c]

\* String.prototype.trim(): the string without its leading and trailing spaces
Trim(s) ==
    LET inked == {i \in 1..Len(s) : s[i] # " "}
        first == CHOOSE i \in inked : \A j \in inked : i <= j
        last == CHOOSE i \in inked : \A j \in inked : j <= i
    IN  IF inked = {} THEN <<>> ELSE SubSeq(s, first, last)

\* one or more characters that are neither a space nor an at sign: [^\s@]+
NoSpaceNoAt(s, from, to) ==
    from <= to /\ \A i \in from..to : s[i] \notin {" ", "@"}

\* /^[^\s@]+@[^\s@]+\.[^\s@]+$/
IsEmail(s) ==
    \E at \in 1..Len(s), dot \in 1..Len(s) :
        /\ s[at] = "@" /\ s[dot] = "."
        /\ NoSpaceNoAt(s, 1, at - 1)
        /\ NoSpaceNoAt(s, at + 1, dot - 1)
        /\ NoSpaceNoAt(s, dot + 1, Len(s))

\* Yup.string().email(..).max(255).required(..): the messages of the failed tests
EmailErrors(value) ==
    (IF value # <<>> /\ ~IsEmail(value) THEN <<"Must be a valid email">> ELSE <<>>)
    \o (IF Len(value) > 255 THEN <<"email must be at most 255 characters">> ELSE <<>>)
    \o (IF value = <<>> THEN <<"Email is required">> ELSE <<>>)

\* Yup.string().max(255).required(message)
NameErrors(field, message, value) ==
    (IF Len(value) > 255 THEN <<field \o " must be at most 255 characters">> ELSE <<>>)
    \o (IF value = <<>> THEN <<message>> ELSE <<>>)

\* the password of the login form: required, no space at either end, min(6)
LoginPasswordErrors(value) ==
    (IF value = <<>> THEN <<"Password is required">> ELSE <<>>)
    \o (IF value # Trim(value)
        THEN <<"Password cannot start or end with spaces">> ELSE <<>>)
    \o (IF Len(value) < 6 THEN <<"Password must be at least 6 characters">> ELSE <<>>)

\* the password of the registration form: required, no space at either end, max(10)
RegisterPasswordErrors(value) ==
    (IF value = <<>> THEN <<"Password is required">> ELSE <<>>)
    \o (IF value # Trim(value)
        THEN <<"Password cannot start or end with spaces">> ELSE <<>>)
    \o (IF Len(value) > 10 THEN <<"Password must be less than 10 characters">> ELSE <<>>)

\* the validationSchema of a form applied to one of its fields
FieldErrors(kind, field, value) ==
    CASE field = "email" -> EmailErrors(value)
      [] field = "firstname" -> NameErrors(field, "First Name is required", value)
      [] field = "lastname" -> NameErrors(field, "Last Name is required", value)
      [] field = "password" /\ kind = "login" -> LoginPasswordErrors(value)
      [] field = "password" /\ kind # "login" -> RegisterPasswordErrors(value)

\* the errors object of a validation of the whole form: every field that fails,
\* with the message of its first failed test
Validate(kind, values) ==
    LET failed == {f \in DOMAIN values : FieldErrors(kind, f, values[f]) # <<>>}
    IN  [f \in failed |-> FieldErrors(kind, f, values[f])[1]]

\* what a user types into the password field
Passwords ==
    {<<>>} \cup {<<c>> : c \in {"a", " "}}
    \cup {<<first>> \o Repeat("a", n - 2) \o <<last>> :
            n \in 2..MaxPasswordLen, first \in {"a", " "}, last \in {"a", " "}}

\* what a user types into the email field
Emails ==
    {<<>>, <<"a">>, <<"a", "@", "a", ".", "a">>, <<" ", "a", "@", "a", ".", "a">>}

\* what a user types into a name field
Names == {<<>>, <<"a">>, Repeat("a", 256)}

\* what a user types into a field
FieldInputs(field) ==
    CASE field = "email" -> Emails
      [] field = "password" -> Passwords
      [] field \in {"firstname", "lastname"} -> Names

\* the errors object after the validation of one field
Revalidate(kind, errors, field, value) ==
    LET failed == FieldErrors(kind, field, value) # <<>>
        keys == IF failed THEN DOMAIN errors \cup {field} ELSE DOMAIN errors \ {field}
    IN  [f \in keys |-> IF f = field THEN FieldErrors(kind, field, value)[1]
                                     ELSE errors[f]]

\* handleChange: the user types `value` into the field `field` of a form that is
\* not submitting, and Formik validates the field; the settled signIn() of an
\* earlier submission is of no account any more
HandleChange(field, value) ==
    /\ ~form.isSubmitting
    /\ form.values[field] # value
    /\ form' = [form EXCEPT !.values[field] = value,
                            !.errors = Revalidate(form.kind, form.errors, field, value),
                            !.signIn = "none", !.args = EmptyObject,
                            !.preloaded = FALSE]
    /\ UNCHANGED <<env, loaded, thrown, clients, authOptions, cookie, calls, auth,
                   pathname, useSession, guard, checks, signout>>

\* the arguments of the signIn() call of a form's onSubmit
SignInArgs(kind, values) ==
    LET trimmedEmail == Trim(values.email)
    IN  IF kind = "login"
        THEN [provider |-> "login", redirect |-> FALSE, email |-> trimmedEmail,
              password |-> values.password, callbackUrl |-> APP_DEFAULT_PATH]
        ELSE [provider |-> "register", redirect |-> FALSE,
              firstname |-> values.firstname, lastname |-> values.lastname,
              email |-> trimmedEmail, password |-> values.password,
              callbackUrl |-> APP_DEFAULT_PATH]

\* Formik calling onSubmit without validating the form
HandleSubmit_SkipsValidation ==
    /\ ~form.isSubmitting
    /\ form' = [form EXCEPT !.errors = EmptyObject, !.isSubmitting = TRUE,
                             !.signIn = "pending",
                             !.args = SignInArgs(form.kind, form.values),
                             !.preloaded = FALSE]
    /\ UNCHANGED <<env, loaded, thrown, clients, authOptions, cookie, calls, auth,
                   pathname, useSession, guard, checks, signout>>

\* the submit button (disabled while submitting): Formik validates the whole form,
\* and calls onSubmit, which calls signIn(), only if no field failed
HandleSubmit ==
    /\ ~form.isSubmitting
    /\ LET errors == Validate(form.kind, form.values)
       IN  IF errors # EmptyObject
           THEN form' = [form EXCEPT !.errors = errors, !.signIn = "none",
                                     !.args = EmptyObject, !.preloaded = FALSE]
           ELSE form' = [form EXCEPT !.errors = errors, !.isSubmitting = TRUE,
                                     !.signIn = "pending",
                                     !.args = SignInArgs(form.kind, form.values),
                                     !.preloaded = FALSE]
    /\ UNCHANGED <<env, loaded, thrown, clients, authOptions, cookie, calls, auth,
                   pathname, useSession, guard, checks, signout>>

\* what the promise of signIn() resolves with: an error of authorize() or none
SignInResults ==
    {[error |-> "Invalid credentials"], [error |-> "Connection refused."],
     [ok |-> TRUE]}

\* the promise of signIn() resolves and the callback of then() runs
SignInResolves(res) ==
    /\ form.signIn = "pending"
    /\ IF "error" \in DOMAIN res
       THEN form' = [form EXCEPT !.signIn = "fulfilled",
                                 !.errors = [submit |-> res.error],
                                 !.isSubmitting = FALSE]
       ELSE form' = [form EXCEPT !.signIn = "fulfilled", !.preloaded = TRUE,
                                 !.isSubmitting = FALSE]
    /\ UNCHANGED <<env, loaded, thrown, clients, authOptions, cookie, calls, auth,
                   pathname, useSession, guard, checks, signout>>

\* the promise of signIn() rejects (the request to /api/auth fails): then() has
\* no rejection callback and nothing catches
SignInRejects ==
    /\ form.signIn = "pending"
    /\ form' = [form EXCEPT !.signIn = "rejected"]
    /\ UNCHANGED <<env, loaded, thrown, clients, authOptions, cookie, calls, auth,
                   pathname, useSession, guard, checks, signout>>

----------------------------------------------------------------------------
(* Specifications *)

\* the process before any module is evaluated, in any environment
InitStartup ==
    /\ env \in Environments
    /\ loaded = "init"
    /\ thrown = NoError
    /\ clients = NoClients
    /\ authOptions = NotBuilt
    /\ cookie = NoObject
    /\ calls = EmptyBag
    /\ auth = Idle
    /\ pathname = "/"
    /\ useSession = Loading
    /\ guard = NotMounted
    /\ checks = EmptyBag
    /\ signout = "none"
    /\ form = FormikInit("login")

NextStartup ==
    \/ LoadAxiosModule
    \/ LoadAuthOptions
    \/ CredentialsGet
    \/ MessagesPost
    \/ Respond
    \/ Observe

SpecStartup == InitStartup /\ [][NextStartup]_vars

\* the application with the documented environment, both modules evaluated
Init ==
    /\ env = ExampleEnv
    /\ loaded = "ready"
    /\ thrown = NoError
    /\ clients = [credentialsService |-> CreateCredentialsService(ExampleEnv),
                  messagesService |-> CreateMessagesService(ExampleEnv)]
    /\ authOptions = [built |-> TRUE, session |-> [strategy |-> "jwt"],
                      jwt |-> [secret |-> Get(ExampleEnv, "NEXT_APP_JWT_SECRET")]]
    /\ cookie = NoObject
    /\ calls = EmptyBag
    /\ auth = Idle
    /\ pathname = "/"
    /\ useSession = Loading
    /\ guard = NotMounted
    /\ checks = EmptyBag
    /\ signout = "none"
    /\ form = FormikInit("login")

Next ==
    \/ CredentialsGet
    \/ MessagesPost
    \/ Respond
    \/ Observe
    \/ \E provider \in Providers : AuthorizeCall(provider)
    \/ AuthorizeSettle
    \/ SignInSucceeds
    \/ SignInFails

Spec == Init /\ [][Next]_vars

\* the browser opens the login page or the dashboard of the started application,
\* with no session cookie yet
InitPages ==
    /\ env = ExampleEnv
    /\ loaded = "ready"
    /\ thrown = NoError
    /\ clients = [credentialsService |-> CreateCredentialsService(ExampleEnv),
                  messagesService |-> CreateMessagesService(ExampleEnv)]
    /\ authOptions = [built |-> TRUE, session |-> [strategy |-> "jwt"],
                      jwt |-> [secret |-> Get(ExampleEnv, "NEXT_APP_JWT_SECRET")]]
    /\ cookie = NoObject
    /\ calls = EmptyBag
    /\ auth = Idle
    /\ pathname \in {"/login", APP_DEFAULT_PATH}
    /\ useSession = Loading
    /\ guard = NotMounted
    /\ checks = EmptyBag
    /\ signout = "none"
    /\ form = FormikInit("login")

\* signing in and reading the session, on any answer of the credentials backend
NextSession ==
    \/ \E provider \in Providers : AuthorizeCall(provider)
    \/ AuthorizeSettle
    \/ SignInSucceeds
    \/ SignInFails
    \/ SessionRead

SpecSession == InitPages /\ [][NextSession]_vars

\* the answers of the credentials backend to the login form while the pages are
\* followed: the login succeeds or the credentials are refused
PageAuthOutcomes ==
    { SuccessOutcome([data |-> [user |-> [id |-> "42"], accessToken |-> "tok-abc"]]),
      HttpErrorOutcome(401, [message |-> "Invalid credentials"]) }

\* the login form is on the screen: GuestGuard shows the children of the login page
LoginFormShown == guard = [kind |-> "GuestGuard", view |-> "children"]

\* the pages: the login form signs in, the session is read, the guards check the
\* session on the server and the dashboard logs out
NextPages ==
    \/ LoginFormShown /\ AuthorizeCall("login")
    \/ AuthorizeSettle /\ auth'.call.outcome \in PageAuthOutcomes
    \/ SignInSucceeds
    \/ SignInFails
    \/ SessionRead
    \/ GuardMount
    \/ ProtectedRespond
    \/ \E check \in AnsweredChecks : GuardHandle(check)
    \/ Logout
    \/ SignOutRespond

SpecPages == InitPages /\ [][NextPages]_vars

\* every resumed fetchData() runs to its end: a settled promise's continuation is
\* scheduled by the event loop
FairSpecPages == SpecPages /\ \A check \in AnsweredChecks : WF_vars(GuardHandle(check))

\* the session cookie of a user who signed in through the login provider
SignedInCookie ==
    LET user == [id |-> "42", accessToken |-> "tok-abc"]
    IN  JwtCallback(DefaultToken(user), user, [provider |-> "login"])

\* a signed-in user opens the dashboard
InitLogout ==
    /\ env = ExampleEnv
    /\ loaded = "ready"
    /\ thrown = NoError
    /\ clients = [credentialsService |-> CreateCredentialsService(ExampleEnv),
                  messagesService |-> CreateMessagesService(ExampleEnv)]
    /\ authOptions = [built |-> TRUE, session |-> [strategy |-> "jwt"],
                      jwt |-> [secret |-> Get(ExampleEnv, "NEXT_APP_JWT_SECRET")]]
    /\ cookie = SignedInCookie
    /\ calls = EmptyBag
    /\ auth = Idle
    /\ pathname = APP_DEFAULT_PATH
    /\ useSession = Loading
    /\ guard = NotMounted
    /\ checks = EmptyBag
    /\ signout = "none"
    /\ form = FormikInit("login")

\* the pages of a user who signs out and does not sign in again
NextLogout ==
    \/ SessionRead
    \/ GuardMount
    \/ ProtectedRespond
    \/ \E check \in AnsweredChecks : GuardHandle(check)
    \/ Logout
    \/ SignOutRespond

\* every request gets its answer, every resumed fetchData() runs to its end, the
\* page that was navigated to mounts and the SessionProvider reads the session
\* again (signOut() ends with it)
FairSpecLogout ==
    /\ InitLogout /\ [][NextLogout]_vars
    /\ \A check \in AnsweredChecks : WF_vars(GuardHandle(check))
    /\ WF_vars(SignOutRespond)
    /\ WF_vars(ProtectedRespond)
    /\ WF_vars(GuardMount)
    /\ WF_vars(SessionRead)

\* the started application in a browser that is signed out or signed in
InitClients ==
    /\ env = ExampleEnv
    /\ loaded = "ready"
    /\ thrown = NoError
    /\ clients = [credentialsService |-> CreateCredentialsService(ExampleEnv),
                  messagesService |-> CreateMessagesService(ExampleEnv)]
    /\ authOptions = [built |-> TRUE, session |-> [strategy |-> "jwt"],
                      jwt |-> [secret |-> Get(ExampleEnv, "NEXT_APP_JWT_SECRET")]]
    /\ cookie \in {NoObject, SignedInCookie}
    /\ calls = EmptyBag
    /\ auth = Idle
    /\ pathname = "/"
    /\ useSession = Loading
    /\ guard = NotMounted
    /\ checks = EmptyBag
    /\ signout = "none"
    /\ form = FormikInit("login")

\* the calls through the two clients, the browser's and authorize()'s, with the
\* session cookie as it is
NextClients ==
    \/ CredentialsGet
    \/ MessagesPost
    \/ Respond
    \/ Observe
    \/ \E provider \in Providers : AuthorizeCall(provider)
    \/ AuthorizeSettle
    \/ SignInFails

SpecClients == InitClients /\ [][NextClients]_vars

\* a login or a registration form shown to a visitor
InitForms ==
    /\ env = ExampleEnv
    /\ loaded = "ready"
    /\ thrown = NoError
    /\ clients = [credentialsService |-> CreateCredentialsService(ExampleEnv),
                  messagesService |-> CreateMessagesService(ExampleEnv)]
    /\ authOptions = [built |-> TRUE, session |-> [strategy |-> "jwt"],
                      jwt |-> [secret |-> Get(ExampleEnv, "NEXT_APP_JWT_SECRET")]]
    /\ cookie = NoObject
    /\ calls = EmptyBag
    /\ auth = Idle
    /\ useSession = [status |-> "unauthenticated", data |-> NoObject, ref |-> 1]
    /\ guard = [kind |-> "GuestGuard", view |-> "children"]
    /\ checks = EmptyBag
    /\ signout = "none"
    /\ \E kind \in {"login", "register"} :
          form = FormikInit(kind) /\ pathname = "/" \o kind

\* filling in and submitting a form, and the outcomes of signIn()
NextForms ==
    \/ \E field \in DOMAIN form.values :
          \E value \in FieldInputs(field) : HandleChange(field, value)
    \/ HandleSubmit
    \/ \E res \in SignInResults : SignInResolves(res)
    \/ SignInRejects

SpecForms == InitForms /\ [][NextForms]_vars


----------------------------------------------------------------------------
(* Properties *)

\* every call in progress or settled: those of application code and authorize()'s own
AllCalls == Calls \cup (IF auth = Idle THEN {} ELSE {auth.call})

SettledCalls == { c \in AllCalls : c.state \in {"resolved", "rejected"} }

\* the session read by the request interceptor holds an access token
HoldsAccessToken(session) ==
    /\ session # NoObject
    /\ "accessToken" \in DOMAIN session.token

\* the response the call received had status 401
Got401(c) == "response" \in DOMAIN c.outcome /\ c.outcome.response.status = 401

\* C1: a request through credentialsService carries Authorization = 'Bearer ' + the
\* access token of the session its interceptor read, and nothing else; with no
\* session or no access token it is dispatched without an Authorization header.
C1_BearerHeaderFromSession ==
    \A c \in AllCalls :
        c.service = "credentialsService" =>
            IF HoldsAccessToken(c.session)
            THEN c.headers = [Authorization |-> "Bearer " \o c.session.token.accessToken]
            ELSE "Authorization" \notin DOMAIN c.headers

\* C1 witness: a dispatched request with the bearer header of a signed-in caller next
\* to a dispatched request whose interceptor found no session
C1_Witness ==
    /\ \E c \in Calls : /\ c.service = "credentialsService"
                        /\ HoldsAccessToken(c.session)
                        /\ c.headers = [Authorization |-> "Bearer tok-abc"]
    /\ auth # Idle /\ auth.call.session = NoObject /\ auth.call.headers = EmptyObject

\* C2: every request through messagesService carries X-API-Key equal to the
\* configured MESSAGES_WEB_API_KEY, the same for any two requests whether or not
\* their callers were signed in.
C2_ApiKeyFixed ==
    \A c1, c2 \in AllCalls :
        (c1.service = "messagesService" /\ c2.service = "messagesService") =>
            /\ "X-API-Key" \in DOMAIN c1.headers
            /\ c1.headers["X-API-Key"] = ExampleEnv["MESSAGES_WEB_API_KEY"]
            /\ c1.headers["X-API-Key"] = env["MESSAGES_WEB_API_KEY"]
            /\ c1.headers = c2.headers

\* C2 witness: a signed-in caller's request through messagesService carries the key
C2_Witness ==
    \E c \in Calls : /\ c.service = "messagesService"
                     /\ c.signedIn
                     /\ cookie # NoObject /\ "accessToken" \in DOMAIN cookie
                     /\ c.headers = ("X-API-Key" :> "your-api-key-here")

\* C3 as stated: every 401 response received by credentialsService triggers exactly
\* one navigation to '/login'.
C3_Every401Navigates ==
    \A c \in SettledCalls :
        (c.service = "credentialsService" /\ Got401(c)) => c.navigations = <<"/login">>

\* C3 amended: a 401 response received by credentialsService triggers exactly one
\* navigation to '/login' where a window exists (in the browser), and none where
\* the interceptor runs on the server, as it does under authorize().
C3_401NavigatesInBrowser ==
    \A c \in SettledCalls :
        (c.service = "credentialsService" /\ Got401(c)) =>
            /\ c.state = "rejected"
            /\ c.ctx = "browser" => c.navigations = <<"/login">>
            /\ c.ctx = "server" => c.navigations = <<>>

\* C3 witness: a browser call through credentialsService was answered 401 and the
\* page went to '/login'
C3_Witness ==
    \E c \in Calls : /\ c.service = "credentialsService"
                     /\ c.ctx = "browser"
                     /\ c.state = "rejected"
                     /\ Got401(c)
                     /\ Len(c.navigations) = 1
                     /\ pathname = "/login"

MissingClientConfig == \E k \in ValidatedEnvKeys : k \notin DOMAIN env \/ env[k] = ""

\* C5: with CREDENTIALS_API_URL, MESSAGES_WEB_API_URL or MESSAGES_WEB_API_KEY missing,
\* the module evaluation ends in a thrown error, neither client is ever created and
\* no request is ever dispatched.
C5_AllOrNothingStartup ==
    MissingClientConfig =>
        /\ loaded \in {"init", "failed"}
        /\ loaded = "failed" => thrown.thrown
        /\ clients = NoClients
        /\ calls = EmptyBag

\* C5 witness: the evaluation failed on a missing value with no client created
C5_Witness ==
    /\ loaded = "failed"
    /\ thrown.thrown
    /\ "MESSAGES_WEB_API_KEY" \notin DOMAIN env
    /\ "CREDENTIALS_API_URL" \in DOMAIN env /\ env["CREDENTIALS_API_URL"] # ""
    /\ "MESSAGES_WEB_API_URL" \in DOMAIN env /\ env["MESSAGES_WEB_API_URL"] # ""
    /\ clients = NoClients

\* C6 as stated: the startup error names the missing variable that was tested and
\* gives an example value for that same variable.
C6_MessageNamesMissingKey ==
    loaded = "failed" =>
        \E k \in ValidatedEnvKeys :
            /\ k \notin DOMAIN env \/ env[k] = ""
            /\ thrown.message = NotSetMessage(k, ExampleEnv[k])

\* C7 as stated: the application starts only if all seven required variables are set.
C7_AllSevenValidated ==
    (loaded = "ready" \/ authOptions # NotBuilt) =>
        \A k \in RequiredEnvKeys : k \in DOMAIN env /\ env[k] # ""

\* the answer authorize()'s call received
AuthAnswer == auth.call.outcome

\* authorize() has returned or thrown
AuthorizeDone == auth.state \in {"returned", "thrown"}

\* the answer is a response whose body is { data: { user, accessToken } }
EnvelopeAnswer ==
    /\ AuthAnswer.kind = "response"
    /\ "data" \in DOMAIN AuthAnswer.data
    /\ DOMAIN AuthAnswer.data.data = {"user", "accessToken"}

\* C8: on a body { data: { user, accessToken } } authorize (login or register)
\* returns the user with accessToken set to data.accessToken and every other
\* property as the backend sent it; { data: { user: { id: "42" }, accessToken:
\* "tok-abc" } } yields { id: "42", accessToken: "tok-abc" }.
C8_IdentityIsUserWithToken ==
    (AuthorizeDone /\ EnvelopeAnswer) =>
        LET data == AuthAnswer.data.data IN
        /\ auth.state = "returned"
        /\ DOMAIN auth.identity = DOMAIN data.user \cup {"accessToken"}
        /\ auth.identity["accessToken"] = data.accessToken
        /\ \A k \in DOMAIN data.user \ {"accessToken"} : auth.identity[k] = data.user[k]
        /\ data = [user |-> [id |-> "42"], accessToken |-> "tok-abc"] =>
               auth.identity = [id |-> "42", accessToken |-> "tok-abc"]

\* C8 witness: the login provider returned the identity of the scenario
C8_Witness ==
    /\ auth.state = "returned"
    /\ auth.provider = "login"
    /\ AuthAnswer.data = [data |-> [user |-> [id |-> "42"], accessToken |-> "tok-abc"]]
    /\ auth.identity = [id |-> "42", accessToken |-> "tok-abc"]

\* the backend's message field, when the failed call got a response carrying one
BackendMessage ==
    IF "response" \in DOMAIN AuthAnswer
    THEN Get(AuthAnswer.response.data, "message")
    ELSE Undefined

\* C9 as stated: after a failed backend call authorize throws one Error whose message
\* is the backend's message field when there is one and 'Something went wrong!'
\* otherwise, and returns no identity.
C9_BackendMessageOrFallback ==
    (AuthorizeDone /\ AuthAnswer.kind = "error") =>
        /\ auth.state = "thrown"
        /\ auth.error.message =
               IF Truthy(BackendMessage) THEN BackendMessage ELSE "Something went wrong!"

\* C9 amended: after a failed backend call authorize throws one Error and returns no
\* identity; its message is 'Connection refused.' when the connection was refused,
\* 'Server Error. Contact support' when the status was 500 or more, and otherwise
\* the backend's message field when there is one, else 'Something went wrong!'.
C9_NormalisedMessageOrFallback ==
    (AuthorizeDone /\ AuthAnswer.kind = "error") =>
        /\ auth.state = "thrown"
        /\ auth.error.thrown
        /\ "identity" \notin DOMAIN auth
        /\ auth.error.message =
               IF AuthAnswer.code = "ECONNREFUSED" THEN "Connection refused."
               ELSE IF "response" \in DOMAIN AuthAnswer /\ AuthAnswer.response.status >= 500
               THEN "Server Error. Contact support"
               ELSE IF Truthy(BackendMessage) THEN BackendMessage
               ELSE "Something went wrong!"

\* C9 witness: a 401 with a message made authorize throw that message
C9_Witness ==
    /\ auth.state = "thrown"
    /\ AuthAnswer = HttpErrorOutcome(401, [message |-> "Invalid credentials"])
    /\ auth.error.message = "Invalid credentials"

\* C10: when the credentials backend refuses the connection during login, authorize
\* throws one Error whose message is 'Connection refused.', not the fallback.
C10_ConnectionRefusedMessage ==
    (AuthorizeDone /\ auth.provider = "login" /\ AuthAnswer = NetworkErrorOutcome("ECONNREFUSED")) =>
        /\ auth.state = "thrown"
        /\ auth.call.state = "rejected"
        /\ auth.error = Error("Connection refused.")

\* C10 witness: the login provider threw after a refused connection
C10_Witness ==
    /\ auth.state = "thrown"
    /\ auth.provider = "login"
    /\ AuthAnswer.kind = "error" /\ AuthAnswer.code = "ECONNREFUSED"
    /\ auth.error.message = "Connection refused."

\* the call received a response, and an error response
GotResponse(c) == c.outcome.kind = "response" \/ "response" \in DOMAIN c.outcome

GotErrorResponse(c) == c.outcome.kind = "error" /\ "response" \in DOMAIN c.outcome

\* C14: a response with status 500 or more, from either backend, rejects the call
\* with { message: 'Server Error. Contact support' }: the backend's payload is not
\* handed to the caller, and no navigation is triggered.
C14_ServerErrorGeneric ==
    \A c \in SettledCalls :
        (GotErrorResponse(c) /\ c.outcome.response.status >= 500) =>
            /\ c.state = "rejected"
            /\ c.value = [message |-> "Server Error. Contact support"]
            /\ c.value # c.outcome.response.data
            /\ c.navigations = <<>>

\* C14 witness: messagesService was answered 503 with a payload of the backend and
\* authorize()'s call through credentialsService 500; both were rejected with the
\* generic message and the page stayed where it was
C14_Witness ==
    /\ \E c \in Calls : /\ c.service = "messagesService"
                        /\ c.state = "rejected"
                        /\ c.outcome = HttpErrorOutcome(503, [message |-> "Service Unavailable"])
                        /\ c.value = [message |-> "Server Error. Contact support"]
    /\ auth # Idle
    /\ auth.call.state = "rejected"
    /\ AuthAnswer = HttpErrorOutcome(500, [message |-> "Invalid credentials"])
    /\ auth.call.value = [message |-> "Server Error. Contact support"]
    /\ pathname = "/"

\* the call failed without a response: the backend could not be reached
ConnectionFailure(c) == c.outcome.kind = "error" /\ "response" \notin DOMAIN c.outcome

\* C15 as stated: every connection failure on credentialsService rejects the call
\* with a connection error that carries a message.
C15_EveryConnectionFailureHasMessage ==
    \A c \in SettledCalls :
        (c.service = "credentialsService" /\ ConnectionFailure(c)) =>
            /\ c.state = "rejected"
            /\ "message" \in DOMAIN c.value

\* C15 amended: a refused connection (ECONNREFUSED) on credentialsService rejects
\* the call with { message: 'Connection refused.' }; any other failure without a
\* response (a timeout) rejects it with the bare string 'Server connection
\* refused', which carries no message property; neither navigates.
C15_RefusedOrFallbackString ==
    \A c \in SettledCalls :
        (c.service = "credentialsService" /\ ConnectionFailure(c)) =>
            /\ c.state = "rejected"
            /\ c.navigations = <<>>
            /\ c.value = IF c.outcome.code = "ECONNREFUSED"
                         THEN [message |-> "Connection refused."]
                         ELSE StringValue("Server connection refused")

\* C15 witness: a browser call through credentialsService timed out and was
\* rejected with the fallback string, while authorize()'s call was refused
C15_Witness ==
    /\ \E c \in Calls : /\ c.service = "credentialsService"
                        /\ c.state = "rejected"
                        /\ c.outcome = NetworkErrorOutcome("ETIMEDOUT")
                        /\ c.value = StringValue("Server connection refused")
    /\ auth # Idle
    /\ auth.call.state = "rejected"
    /\ AuthAnswer = NetworkErrorOutcome("ECONNREFUSED")
    /\ auth.call.value = [message |-> "Connection refused."]

\* the payload of the error response, or the fallback string when it carries none
PayloadOrFallback(c) ==
    IF c.outcome.response.data # StringValue("")
    THEN c.outcome.response.data
    ELSE StringValue("Server connection refused")

\* C16 as stated: a 401 on credentialsService has navigated to '/login' by the time
\* the call is rejected with the backend's payload or the fallback string.
C16_401NavigatesThenRejects ==
    \A c \in SettledCalls :
        (c.service = "credentialsService" /\ Got401(c)) =>
            /\ c.navigations = <<"/login">>
            /\ pathname = "/login"
            /\ c.state = "rejected"
            /\ c.value = PayloadOrFallback(c)

\* C16 amended: a 401 on credentialsService never resolves the call; it rejects it
\* with the backend's payload, or with 'Server connection refused' when the
\* response carries none.  In the browser the page is at '/login' by the time the
\* call is rejected; on the server, under authorize(), nothing is navigated.
C16_401RejectsWithPayload ==
    \A c \in SettledCalls :
        (c.service = "credentialsService" /\ Got401(c)) =>
            /\ c.state = "rejected"
            /\ c.value = PayloadOrFallback(c)
            /\ c.ctx = "browser" => (c.navigations = <<"/login">> /\ pathname = "/login")
            /\ c.ctx = "server" => c.navigations = <<>>

\* C16 witness: a browser call answered 401 without a payload was rejected with the
\* fallback string after the page went to '/login'
C16_Witness ==
    \E c \in Calls : /\ c.service = "credentialsService"
                     /\ c.ctx = "browser"
                     /\ c.state = "rejected"
                     /\ c.outcome = HttpErrorOutcome(401, StringValue(""))
                     /\ c.value = StringValue("Server connection refused")
                     /\ pathname = "/login"

\* an outcome that is no connection failure, no status of 500 or more and no 401
OtherOutcome(c) ==
    /\ GotResponse(c)
    /\ GotErrorResponse(c) => (c.outcome.response.status < 500 /\ c.outcome.response.status # 401)

\* the body the backend sent with the call's response
ResponseBody(c) ==
    IF c.outcome.kind = "response" THEN c.outcome.data ELSE c.outcome.response.data

\* C17 as stated: every outcome on credentialsService that is no connection
\* failure, no status of 500 or more and no 401 -- a 404 among them -- resolves the
\* call with the backend's response body.
C17_OtherOutcomesResolve ==
    \A c \in SettledCalls :
        (c.service = "credentialsService" /\ OtherOutcome(c)) =>
            /\ c.state = "resolved"
            /\ c.value \in { ResponseBody(c), [status |-> 200, data |-> ResponseBody(c)] }

\* C17 amended: on credentialsService a successful response resolves the call with
\* the raw response, status and body unmodified; an error response with a status
\* below 500 other than 401 (a 404) rejects the call with the backend's payload,
\* or with 'Server connection refused' when it carries none, and navigates nowhere.
C17_SuccessResolvesErrorsReject ==
    \A c \in SettledCalls :
        (c.service = "credentialsService" /\ OtherOutcome(c)) =>
            IF c.outcome.kind = "response"
            THEN /\ c.state = "resolved"
                 /\ c.value = [status |-> c.outcome.status, data |-> c.outcome.data]
                 /\ c.navigations = <<>>
            ELSE /\ c.state = "rejected"
                 /\ c.value = PayloadOrFallback(c)
                 /\ c.navigations = <<>>

\* C17 witness: a browser call answered 404 was rejected with the backend's payload
\* while authorize()'s call was resolved with the raw response
C17_Witness ==
    /\ \E c \in Calls : /\ c.service = "credentialsService"
                        /\ c.state = "rejected"
                        /\ c.outcome = HttpErrorOutcome(404, [message |-> "Invalid credentials"])
                        /\ c.value = [message |-> "Invalid credentials"]
    /\ auth # Idle
    /\ auth.call.state = "resolved"
    /\ auth.call.value = [status |-> 200,
                          data |-> [data |-> [user |-> [id |-> "42"], accessToken |-> "tok-abc"]]]

\* the step in which NextAuth takes the identity authorize() returned
SignInStep == auth.state = "returned" /\ auth' = Idle

\* the payload { user, accessToken } of the answer authorize() unwrapped
AuthData == AuthAnswer.data.data

\* C11: a session read after a successful sign-in yields session.id = the backend
\* user's id, session.provider = the provider used and session.token.accessToken =
\* the backend's data.accessToken; and every session read delivered to the browser
\* has id and provider equal to the current token's and holds that token.
C11_SessionRoundTrip ==
    [][ /\ SignInStep =>
             LET read == BrowserSession(cookie') IN
             /\ read # NoObject
             /\ Get(read, "id") = Get(AuthData.user, "id")
             /\ Get(read, "provider") = auth.provider
             /\ Get(read.token, "accessToken") = Get(AuthData, "accessToken")
        /\ useSession' # useSession =>
             IF cookie' = NoObject
             THEN useSession'.data = NoObject
             ELSE /\ Get(useSession'.data, "id") = Get(cookie', "id")
                  /\ Get(useSession'.data, "provider") = Get(cookie', "provider")
                  /\ useSession'.data.token = cookie'
      ]_vars

\* C11 witness: after a login answered with user 42 and tok-abc the browser read
\* the session of that user, provider and token
C11_Witness ==
    /\ useSession.status = "authenticated"
    /\ Get(useSession.data, "id") = "42"
    /\ Get(useSession.data, "provider") = "login"
    /\ Get(useSession.data.token, "accessToken") = "tok-abc"
    /\ useSession.data.token = cookie

\* C12: a successful sign-in sets the token's accessToken to the one the backend
\* issued in that authentication; every other step (a failed authorize, a session
\* read, which runs callbacks.jwt without an identity) leaves the stored token and
\* its accessToken as they were.
C12_LatestAccessToken ==
    [][ IF SignInStep
        THEN Get(cookie', "accessToken") = Get(AuthData, "accessToken")
        ELSE /\ Get(cookie', "accessToken") = Get(cookie, "accessToken")
             /\ (cookie' = NoObject) = (cookie = NoObject)
      ]_vars

\* C12 witness: the token holds tok-abc of the latest sign-in while a session read
\* before it still shows the earlier tok-xyz, and a later authorize() has failed
C12_Witness ==
    /\ cookie # NoObject
    /\ Get(cookie, "accessToken") = "tok-abc"
    /\ useSession.status = "authenticated"
    /\ Get(useSession.data.token, "accessToken") = "tok-xyz"
    /\ auth.state = "thrown"

\* the properties callbacks.jwt assigns
JwtFields == {"accessToken", "id", "provider"}

\* C13: called with an identity, callbacks.jwt sets token.accessToken and token.id
\* from the identity and token.provider from the account and keeps every other
\* property of the token it was given; called without one (a session read) it
\* returns the token with every property unchanged.
C13_JwtFrame ==
    [][ /\ SignInStep =>
             LET token == DefaultToken(auth.identity) IN
             /\ Get(cookie', "accessToken") = Get(auth.identity, "accessToken")
             /\ Get(cookie', "id") = Get(auth.identity, "id")
             /\ Get(cookie', "provider") = auth.provider
             /\ DOMAIN cookie' \ JwtFields = DOMAIN token \ JwtFields
             /\ \A k \in DOMAIN token \ JwtFields : cookie'[k] = token[k]
        /\ useSession' # useSession => cookie' = cookie
      ]_vars

\* C13 witness: the sign-in of user 7 put the three properties into a token that
\* kept its name and sub, and a session read returned it as it was
C13_Witness ==
    /\ cookie = [name |-> "Ann", sub |-> "7", accessToken |-> "tok-xyz", id |-> "7",
                 provider |-> "register"]
    /\ useSession.status = "authenticated"
    /\ useSession.data.token = cookie

\* the session useSession() holds has settled and contains a user
SessionUser ==
    /\ useSession.status # "loading"
    /\ useSession.data # NoObject
    /\ "user" \in DOMAIN useSession.data

\* C18: AuthGuard renders its children exactly in the states where the session
\* status is not 'loading' and the session contains a user; in every other state
\* it renders the loader.
C18_AuthGuardChildrenOnlyWithUser ==
    guard.kind = "AuthGuard" =>
        /\ guard.view \in {"children", "Loader"}
        /\ guard.view = "children" <=> SessionUser

\* C18 witness: on the dashboard AuthGuard shows the children to a caller whose
\* session, read after a login, contains a user
C18_Witness ==
    /\ guard = [kind |-> "AuthGuard", view |-> "children"]
    /\ pathname = APP_DEFAULT_PATH
    /\ useSession.status = "authenticated"
    /\ "user" \in DOMAIN useSession.data
    /\ Get(useSession.data, "provider") = "login"

\* the step in which fetchData() resumes with the answer `check`
ResumeStep(check) ==
    /\ check \in BagToSet(checks)
    /\ checks' = checks (-) SetToBag({check})

\* the step in which fetchData() of guard `kind` resumes with protected = `protected`
HandleStep(kind, protected) ==
    \E check \in AnsweredChecks :
        /\ check.guard = kind
        /\ check.json.protected = protected
        /\ ResumeStep(check)

\* the step in which /api/auth/protected answers a request with `json`
AnswerStep(json) ==
    \E kind \in {"AuthGuard", "GuestGuard"}, ref \in {0, 1} :
        /\ SentCheck(kind, ref) \in BagToSet(checks)
        /\ checks' = (checks (-) SetToBag({SentCheck(kind, ref)}))
                         (+) SetToBag({AnsweredCheck(kind, ref, json)})

\* an answer to a request of guard `kind` with protected = `protected` awaits fetchData()
Awaits(kind, protected) ==
    \E ref \in {0, 1} :
        AnsweredCheck(kind, ref, [protected |-> protected]) \in BagToSet(checks)

\* C19: /api/auth/protected answers protected:true exactly when the request comes
\* with a server-side session; AuthGuard resuming with protected:false pushes
\* '/login', and every such answer is eventually followed by the page being at
\* '/login'; AuthGuard resuming with protected:true navigates nowhere.
C19_AuthGuardRedirectsUnauthorized ==
    /\ [][ /\ \A p \in BOOLEAN :
                 AnswerStep([protected |-> p]) => (p <=> cookie # NoObject)
           /\ HandleStep("AuthGuard", FALSE) =>
                 pathname' = "/login"
           /\ HandleStep("AuthGuard", TRUE) =>
                 pathname' = pathname
         ]_vars
    /\ Awaits("AuthGuard", FALSE) ~> (pathname = "/login")

\* C19 witness: AuthGuard on the dashboard got protected:false twice; resuming with
\* the first answer took the page to '/login', the second still awaits
C19_Witness ==
    /\ Awaits("AuthGuard", FALSE)
    /\ cookie = NoObject
    /\ pathname = "/login"
    /\ guard = NotMounted

\* C20: GuestGuard renders its children exactly when the status has settled and
\* the session contains no user, and the loader to a caller whose session
\* contains a user; resuming with protected:false it navigates nowhere, resuming
\* with protected:true it pushes the default landing page, and every such answer
\* is eventually followed by the page being the default landing page.
C20_GuestGuardMirror ==
    /\ [](guard.kind = "GuestGuard" =>
             /\ guard.view \in {"children", "Loader"}
             /\ guard.view = "children" <=>
                    (useSession.status # "loading" /\ useSession.data = NoObject)
             /\ SessionUser => guard.view = "Loader")
    /\ [][ /\ HandleStep("GuestGuard", FALSE) =>
                 (pathname' = pathname /\ guard' = guard)
           /\ HandleStep("GuestGuard", TRUE) =>
                 pathname' = APP_DEFAULT_PATH
         ]_vars
    /\ Awaits("GuestGuard", TRUE) ~> (pathname = APP_DEFAULT_PATH)

\* C20 witness: after a login on the login page GuestGuard got protected:true
\* twice; resuming with the first answer took the page to the default landing
\* page, the second still awaits
C20_Witness ==
    /\ Awaits("GuestGuard", TRUE)
    /\ cookie # NoObject
    /\ useSession.status = "authenticated"
    /\ pathname = APP_DEFAULT_PATH
    /\ guard = NotMounted

\* a guard comes onto the screen in this step
MountStep == guard = NotMounted /\ guard' # NotMounted

\* the guard on the screen is handed another session reference in this step
SessionChangeStep ==
    /\ guard # NotMounted
    /\ guard' # NotMounted
    /\ useSession'.ref # useSession.ref

\* C21: a guard sends one request to /api/auth/protected when it is mounted and one
\* every time useSession() hands it another session reference, also one whose
\* content is that of the reference before; in no other step is a request sent.
C21_CheckOnMountAndSessionChange ==
    [][ IF MountStep \/ SessionChangeStep
        THEN checks' = checks (+) SetToBag({[guard |-> guard'.kind,
                                             ref |-> useSession'.ref,
                                             state |-> "sent"]})
        ELSE BagCardinality(checks') <= BagCardinality(checks)
      ]_vars

\* C21 witness: AuthGuard sent one request when it was mounted during loading and
\* one when the first session value arrived; both are under way
C21_Witness ==
    /\ guard.kind = "AuthGuard"
    /\ useSession.status # "loading"
    /\ BagToSet(checks) = { SentCheck("AuthGuard", 0), SentCheck("AuthGuard", 1) }

\* `d` is the call `c` settled: the same request with its one outcome
SettledFrom(c, d) ==
    /\ c.state = "pending"
    /\ d.state \in {"resolved", "rejected"}
    /\ d.service = c.service /\ d.url = c.url /\ d.headers = c.headers

\* C22: a call through either client is one request, which is settled once,
\* resolved or rejected, and then delivered to its caller: every change of the
\* calls under way is a new call, the settling of a pending one or the delivery of
\* a settled one; a failed call is never sent again, and authorize() ends with the
\* one outcome of its call.
C22_OneRequestOneOutcome ==
    [][ /\ calls' # calls =>
             \/ \E c \in BagToSet(calls') : c.state = "pending" /\ calls' = Add(c)
             \/ \E c \in Calls, d \in BagToSet(calls') :
                    SettledFrom(c, d) /\ calls' = Replace(c, d)
             \/ \E c \in Calls :
                    c.state \in {"resolved", "rejected"} /\ calls' = Remove(c)
        /\ (auth.state = "calling" /\ auth' # auth) =>
             /\ auth'.state \in {"returned", "thrown"}
             /\ SettledFrom(auth.call, auth'.call)
             /\ auth'.state = "returned" => auth'.call.state = "resolved"
        /\ (auth.state \in {"returned", "thrown"} /\ auth' # auth) => auth' = Idle
      ]_vars

\* C22 witness: a call through messagesService was rejected and awaits its caller
\* while authorize() has thrown on the rejection of its own call
C22_Witness ==
    /\ \E c \in Calls : c.service = "messagesService" /\ c.state = "rejected"
    /\ BagCardinality(calls) = 1
    /\ auth.state = "thrown"
    /\ auth.call.state = "rejected"

\* the rules of a form's schema, field by field
PassesRules(kind, args) ==
    /\ IsEmail(args.email) /\ Len(args.email) <= 255
    /\ args.password # <<>>
    /\ args.password[1] # " " /\ args.password[Len(args.password)] # " "
    /\ kind = "login" => Len(args.password) >= 6
    /\ kind = "register" =>
         /\ Len(args.password) <= 10
         /\ args.firstname # <<>> /\ Len(args.firstname) <= 255
         /\ args.lastname # <<>> /\ Len(args.lastname) <= 255

\* the step in which the form is submitted: handleSubmit runs on the values as
\* they are
SubmitStep == ~form.isSubmitting /\ form'.values = form.values /\ form' # form

\* C23: signIn() is called only by the onSubmit of a form whose every field passed
\* validation: whenever a signIn() has been called, its arguments are values that
\* satisfy each rule of the form's schema; a submission of values that break a
\* rule calls nothing and leaves the form idle with its errors, and only a
\* submission ever starts a signIn().
C23_SubmitOnlyAfterValidation ==
    [][ /\ form'.signIn # "none" =>
             /\ form'.args.provider = form'.kind
             /\ PassesRules(form'.kind, form'.args)
        /\ (form'.signIn = "pending" /\ form.signIn # "pending") =>
             /\ SubmitStep
             /\ PassesRules(form.kind, form.values)
             /\ form'.args = SignInArgs(form.kind, form.values)
        /\ (SubmitStep /\ ~PassesRules(form.kind, form.values)) =>
             /\ form'.signIn = "none"
             /\ ~form'.isSubmitting
             /\ form'.errors # EmptyObject ]_vars

\* C23 witness: a registration form was submitted with a password that ends in a
\* space: the error is shown and no signIn() was called
C23_Witness ==
    /\ form.kind = "register"
    /\ form.signIn = "none"
    /\ ~form.isSubmitting
    /\ form.values.password = <<"a", "a", " ">>
    /\ DOMAIN form.errors = {"password"}
    /\ form.errors.password = "Password cannot start or end with spaces"

\* C29: every password the registration schema accepts is accepted by the login
\* schema: the password of a registration that went through passes the rules of
\* the login form's password.
C29_RegisteredPasswordPassesLogin ==
    (form.kind = "register" /\ form.signIn = "fulfilled" /\ form.preloaded) =>
        /\ RegisterPasswordErrors(form.args.password) = <<>>
        /\ LoginPasswordErrors(form.args.password) = <<>>

\* C30: once the promise of a login form's signIn() has settled, fulfilled or
\* rejected, the form is no longer submitting; after an error result
\* errors.submit is that error and no preload was issued.
C30_SettledFormNotSubmitting ==
    (form.kind = "login" /\ form.signIn \in {"fulfilled", "rejected"}) =>
        /\ ~form.isSubmitting
        /\ "submit" \in DOMAIN form.errors =>
             /\ form.errors.submit \in {res.error : res \in
                                          {r \in SignInResults : "error" \in DOMAIN r}}
             /\ ~form.preloaded

\* C24: once handleLogout has run, the session cookie gets cleared and the user
\* comes to be on '/login' without a session, however the sign-out request, the
\* navigation and the guards' status checks interleave.
C24_LogoutEndsOnLogin ==
    (signout = "sent")
        ~> (cookie = NoObject /\ pathname = "/login"
              /\ useSession.status = "unauthenticated")

\* C24 witness: the status check of the login page was answered before the
\* sign-out request was handled: GuestGuard is about to push the dashboard
C24_Witness ==
    /\ signout = "sent"
    /\ pathname = "/login"
    /\ cookie # NoObject
    /\ \E ref \in {0, 1} :
          AnsweredCheck("GuestGuard", ref, [protected |-> TRUE]) \in BagToSet(checks)

C26_ChildrenOnlyWithServerSession ==
    guard = [kind |-> "AuthGuard", view |-> "children"] =>
        ProtectedRoute(cookie).protected

\* C27: fetchData() resuming with the answer to a request that was sent for a
\* session value other than the current one navigates nowhere.
C27_StaleAnswerNeverNavigates ==
    [][ \A check \in AnsweredChecks :
            (ResumeStep(check) /\ check.ref # useSession.ref) =>
                pathname' = pathname ]_vars

\* the branch of the credentials interceptor's error handler an outcome falls into
Refused(c) == c.outcome.kind = "error" /\ Get(c.outcome, "code") = "ECONNREFUSED"

ServerFailed(c) == GotErrorResponse(c) /\ c.outcome.response.status >= 500

\* C28: on credentialsService nothing but a 401 navigates, and a 401 only to
\* '/login': a refused connection, a status of 500 or more, any other error status
\* and a success leave the page where it is; a failed call is rejected with the
\* one value of the branch it falls into.
C28_OnlyA401Navigates ==
    \A c \in SettledCalls :
        c.service = "credentialsService" =>
            /\ c.navigations # <<>> => (Got401(c) /\ c.navigations = <<"/login">>)
            /\ (Refused(c) \/ ServerFailed(c) \/ c.outcome.kind = "response") =>
                   c.navigations = <<>>
            /\ c.outcome.kind = "response" => c.state = "resolved"
            /\ c.outcome.kind = "error" =>
                   /\ c.state = "rejected"
                   /\ Refused(c) => c.value = [message |-> "Connection refused."]
                   /\ ServerFailed(c) => c.value = [message |-> "Server Error. Contact support"]
                   /\ (~Refused(c) /\ ~ServerFailed(c)) => c.value = RejectionPayload(c.outcome)

\* C28 witness: the browser's call was answered 500 and rejected with the server
\* error message, authorize()'s call was refused the connection, and the page is
\* where it was
C28_Witness ==
    /\ \E c \in Calls : /\ c.service = "credentialsService"
                        /\ c.ctx = "browser"
                        /\ c.state = "rejected"
                        /\ ServerFailed(c)
                        /\ c.value = [message |-> "Server Error. Contact support"]
    /\ auth.state = "thrown"
    /\ Refused(auth.call)
    /\ pathname = "/"

====
